---- MODULE Spec2Model ----
(***************************************************************************)
(* Random-Chess-Bot: the move selection of minimax_main.py (opening book,  *)
(* minimax with alpha-beta, transposition table, quiescence, evaluation)   *)
(* and of main.py (capture-or-random bot).                                 *)
(*                                                                         *)
(* The rules engine (python-chess) is an external collaborator.  It is     *)
(* modelled by a finite game graph G: every position gives its side to     *)
(* move, its terminal status, the pieces on the board and its legal moves  *)
(* in generation order; board.push / board.pop walk the graph.             *)
(***************************************************************************)
EXTENDS Integers, Sequences, FiniteSets, TLC

VARIABLES
    board,                \* the chess.Board handed to the bot: fen, move_stack, undo stack
    TRANSPOSITION_TABLE,  \* (fen, depth) -> (score, best_move), process-wide
    frames,               \* call stack of minimax / quiescence activations
    ret,                  \* value returned by the activation that returned last
    ctl,                  \* the top-level call in progress, or "idle"
    call,                 \* arguments and entry snapshot of the top-level call
    outcome,              \* what the last completed top-level call gave its caller
    calls,                \* number of top-level calls made so far
    seen,                 \* results of the searches of earlier processes, by (fen, depth)
    regime,               \* which callers the behaviour has: "warm", "cold" or "runs"
    played,               \* opening-book harness: UCI history of the game
    bookLegal,            \* opening-book harness: legal moves at the last lookup
    bookMove,             \* opening-book harness: result of the last lookup
    diverged              \* opening-book harness: a lookup after divergence was made

vars == <<board, TRANSPOSITION_TABLE, frames, ret, ctl, call, outcome, calls, seen,
          regime, played, bookLegal, bookMove, diverged>>

bookVars == <<regime, played, bookLegal, bookMove, diverged>>

(***************************************************************************)
(* Bounds of the model.                                                    *)
(***************************************************************************)
MaxDepth == 3        \* largest search depth requested at top level

MaxCalls == 2        \* top-level calls per behaviour

MaxBookPly == 9      \* longest game history in the opening-book harness

(***************************************************************************)
(* Program constants.                                                      *)
(***************************************************************************)
Inf == 1000000       \* float('inf'); larger than any score

MATE == 20000        \* evaluate_position's checkmate magnitude

BOOK_PLY_LIMIT == 8  \* select_opening_move: "if ply > 8: return None"

None == "None"

White == "w"

Black == "b"

PIECE_VALUES ==
    [P |-> 100, N |-> 320, B |-> 330, R |-> 500, Q |-> 900, K |-> 20000]

CENTER_SQUARES == {"e4", "e5", "d4", "d5"}

RandVals == 0 .. 5   \* random.randint(0, 5)

OPENING_LINES ==
    << <<"e2e4", "e7e5", "f2f4">>,
       <<"e2e4", "c7c5", "g1f3", "d7d6", "d2d4", "c5d4", "f3d4", "g7g6">>,
       <<"e2e4", "e7e5", "g1f3", "b8c6", "f1c4", "f8c5", "b2b4">>,
       <<"d2d4", "f7f5">> >>

Min(a, b) == IF a <= b THEN a ELSE b

Max(a, b) == IF a >= b THEN a ELSE b

(***************************************************************************)
(* The rules engine: a finite game graph.                                  *)
(***************************************************************************)
Quiet(uci, sq, piece, to) ==
    [uci |-> uci, to_square |-> sq, capture |-> FALSE, captured |-> None,
     attacker |-> piece, to |-> to]

Capture(uci, sq, victim, piece, to) ==
    [uci |-> uci, to_square |-> sq, capture |-> TRUE, captured |-> victim,
     attacker |-> piece, to |-> to]

Position(turn, status, white, black, moves) ==
    [turn |-> turn, status |-> status, white |-> white, black |-> black,
     legal_moves |-> moves]

G ==
    [ \* a middlegame whose lines a2a3 a7a6 h2h3 and h2h3 a7a6 a2a3 transpose into T
      R  |-> Position(White, "play", <<"K", "N", "P", "P", "P">>, <<"K", "P", "P", "P">>,
                 <<Quiet("a2a3", "a3", "P", "A1"), Quiet("h2h3", "h3", "P", "A2")>>),
      A1 |-> Position(Black, "play", <<"K", "N", "P", "P", "P">>, <<"K", "P", "P", "P">>,
                 <<Quiet("a7a6", "a6", "P", "B1"), Capture("d5e4", "e4", "N", "P", "B5")>>),
      A2 |-> Position(Black, "play", <<"K", "N", "P", "P", "P">>, <<"K", "P", "P", "P">>,
                 <<Quiet("a7a6", "a6", "P", "B2")>>),
      B1 |-> Position(White, "play", <<"K", "N", "P", "P", "P">>, <<"K", "P", "P", "P">>,
                 <<Quiet("h2h3", "h3", "P", "T")>>),
      B2 |-> Position(White, "play", <<"K", "N", "P", "P", "P">>, <<"K", "P", "P", "P">>,
                 <<Quiet("a2a3", "a3", "P", "T"), Quiet("e4c5", "c5", "N", "C2")>>),
      B5 |-> Position(White, "play", <<"K", "P", "P", "P">>, <<"K", "P", "P", "P">>,
                 <<Capture("f3e4", "e4", "P", "P", "C5")>>),
      T  |-> Position(Black, "play", <<"K", "N", "P", "P", "P">>, <<"K", "P", "P", "P">>,
                 <<Capture("d5e4", "e4", "N", "P", "Q1"), Quiet("c6c5", "c5", "P", "S1")>>),
      C2 |-> Position(Black, "play", <<"K", "N", "P", "P", "P">>, <<"K", "P", "P", "P">>,
                 <<Quiet("d5d4", "d4", "P", "S1")>>),
      C5 |-> Position(Black, "play", <<"K", "P", "P", "P">>, <<"K", "P", "P">>,
                 <<Quiet("c6c5", "c5", "P", "S2")>>),
      Q1 |-> Position(White, "play", <<"K", "P", "P", "P">>, <<"K", "P", "P", "P">>,
                 <<Capture("f3e4", "e4", "P", "P", "Q2"), Quiet("a3a4", "a4", "P", "S3")>>),
      Q2 |-> Position(Black, "play", <<"K", "P", "P", "P">>, <<"K", "P", "P">>,
                 <<Quiet("c6c5", "c5", "P", "S2")>>),
      S1 |-> Position(White, "stalemate", <<"K", "N", "P", "P", "P">>, <<"K", "P", "P", "P">>, <<>>),
      S2 |-> Position(White, "stalemate", <<"K", "P", "P", "P">>, <<"K", "P", "P">>, <<>>),
      S3 |-> Position(Black, "stalemate", <<"K", "P", "P", "P">>, <<"K", "P", "P", "P">>, <<>>),
      \* White to move mates with d1h5
      M  |-> Position(White, "play", <<"K", "Q">>, <<"K", "P", "P">>,
                 <<Quiet("d1h5", "h5", "Q", "Mm"), Capture("d1d7", "d7", "P", "Q", "Mc")>>),
      Mm |-> Position(Black, "checkmate", <<"K", "Q">>, <<"K", "P", "P">>, <<>>),
      Mc |-> Position(Black, "play", <<"K", "Q">>, <<"K", "P">>,
                 <<Capture("e8d7", "d7", "Q", "K", "Md")>>),
      Md |-> Position(White, "play", <<"K">>, <<"K", "P">>,
                 <<Quiet("e1e2", "e2", "K", "S4")>>),
      S4 |-> Position(Black, "stalemate", <<"K">>, <<"K", "P">>, <<>>),
      \* Black to move mates with d8h4; after e8e7 e1e2 Black is mated instead
      N  |-> Position(Black, "play", <<"K", "P">>, <<"K", "Q">>,
                 <<Quiet("e8e7", "e7", "K", "Nq"), Quiet("d8h4", "h4", "Q", "Nm")>>),
      Nm |-> Position(White, "checkmate", <<"K", "P">>, <<"K", "Q">>, <<>>),
      Nq |-> Position(White, "play", <<"K", "P">>, <<"K", "Q">>,
                 <<Quiet("e1e2", "e2", "K", "Nx")>>),
      Nx |-> Position(Black, "checkmate", <<"K", "P">>, <<"K", "Q">>, <<>>),
      \* bishop takes the last pawn: king and bishop against king is a dead draw
      X  |-> Position(White, "play", <<"K", "B">>, <<"K", "P">>,
                 <<Capture("c4b5", "b5", "P", "B", "I1"), Quiet("e1e2", "e2", "K", "S6")>>),
      I1 |-> Position(Black, "insufficient", <<"K", "B">>, <<"K">>,
                 <<Quiet("a8b8", "b8", "K", "I2")>>),
      I2 |-> Position(White, "insufficient", <<"K", "B">>, <<"K">>,
                 <<Quiet("c4d5", "d5", "B", "I3")>>),
      I3 |-> Position(Black, "stalemate", <<"K", "B">>, <<"K">>, <<>>),
      S6 |-> Position(Black, "stalemate", <<"K", "B">>, <<"K", "P">>, <<>>),
      \* White is behind; knight takes pawn, queen takes knight
      K0 |-> Position(White, "play", <<"K", "N", "P">>, <<"K", "Q", "P">>,
                 <<Quiet("a2a3", "a3", "P", "S8"), Capture("f3e5", "e5", "P", "N", "K1")>>),
      K1 |-> Position(Black, "play", <<"K", "N", "P">>, <<"K", "Q">>,
                 <<Capture("d6e5", "e5", "N", "Q", "K2")>>),
      K2 |-> Position(White, "play", <<"K", "P">>, <<"K", "Q">>,
                 <<Quiet("a2a3", "a3", "P", "S9")>>),
      S8 |-> Position(Black, "stalemate", <<"K", "N", "P">>, <<"K", "Q", "P">>, <<>>),
      S9 |-> Position(Black, "stalemate", <<"K", "P">>, <<"K", "Q">>, <<>>),
      \* openings: O0 is the initial position, P0 a set-up position without e2e4
      O0 |-> Position(White, "play", <<"K", "N", "B", "P", "P">>, <<"K", "N", "B", "P", "P">>,
                 <<Quiet("d2d4", "d4", "P", "O2"), Quiet("e2e4", "e4", "P", "O1")>>),
      P0 |-> Position(White, "play", <<"K", "N", "B", "P", "P">>, <<"K", "N", "B", "P", "P">>,
                 <<Quiet("d2d4", "d4", "P", "O2")>>),
      O1 |-> Position(Black, "play", <<"K", "N", "B", "P", "P">>, <<"K", "N", "B", "P", "P">>,
                 <<Quiet("e7e5", "e5", "P", "O3")>>),
      O2 |-> Position(Black, "play", <<"K", "N", "B", "P", "P">>, <<"K", "N", "B", "P", "P">>,
                 <<Quiet("d7d5", "d5", "P", "O4"), Quiet("f7f5", "f5", "P", "O5")>>),
      O3 |-> Position(White, "play", <<"K", "N", "B", "P", "P">>, <<"K", "N", "B", "P", "P">>,
                 <<Quiet("g1f3", "f3", "N", "E3")>>),
      O4 |-> Position(White, "play", <<"K", "N", "B", "P", "P">>, <<"K", "N", "B", "P", "P">>,
                 <<Quiet("c2c4", "c4", "P", "S7")>>),
      O5 |-> Position(White, "play", <<"K", "N", "B", "P", "P">>, <<"K", "N", "B", "P", "P">>,
                 <<Quiet("c2c4", "c4", "P", "S7")>>),
      S7 |-> Position(Black, "stalemate", <<"K", "N", "B", "P", "P">>, <<"K", "N", "B", "P", "P">>, <<>>),
      \* the Evans Gambit line up to 3...Bc5: the book has b2b4, the knight can take on e5
      E3 |-> Position(Black, "play", <<"K", "N", "B", "P", "P">>, <<"K", "N", "B", "P", "P">>,
                 <<Quiet("b8c6", "c6", "N", "E4")>>),
      E4 |-> Position(White, "play", <<"K", "N", "B", "P", "P">>, <<"K", "N", "B", "P", "P">>,
                 <<Quiet("f1c4", "c4", "B", "E5")>>),
      E5 |-> Position(Black, "play", <<"K", "N", "B", "P", "P">>, <<"K", "N", "B", "P", "P">>,
                 <<Quiet("f8c5", "c5", "B", "E6")>>),
      E6 |-> Position(White, "play", <<"K", "N", "B", "P", "P">>, <<"K", "N", "B", "P", "P">>,
                 <<Quiet("b2b4", "b4", "P", "S7"), Capture("f3e5", "e5", "P", "N", "S10")>>),
      S10 |-> Position(Black, "stalemate", <<"K", "N", "B", "P", "P">>, <<"K", "N", "B", "P">>, <<>>) ]

Fens == DOMAIN G

\* chess.Board: the position, the moves played and python-chess's undo stack
Board(fen, move_stack, undo) == [fen |-> fen, move_stack |-> move_stack, undo |-> undo]

RootBoards ==
    { Board(f, <<>>, <<>>) : f \in {"R", "B2", "T", "K0", "M", "N", "X", "I1", "Mm", "I3", "O0", "P0"} }
    \cup { Board("O2", <<"d2d4">>, <<"O0">>),
           Board("O3", <<"e2e4", "e7e5">>, <<"O0", "O1">>),
           Board("O5", <<"d2d4", "f7f5">>, <<"O0", "O2">>),
           Board("E6", <<"e2e4", "e7e5", "g1f3", "b8c6", "f1c4", "f8c5">>,
                 <<"O0", "O1", "O3", "E3", "E4", "E5">>) }

legal_moves(b) == G[b.fen].legal_moves

is_game_over(b) == G[b.fen].status # "play"

is_checkmate(b) == G[b.fen].status = "checkmate"

is_stalemate(b) == G[b.fen].status = "stalemate"

turn(b) == G[b.fen].turn

push(b, move) ==
    Board(move.to, Append(b.move_stack, move.uci), Append(b.undo, b.fen))

pop(b) ==
    Board(b.undo[Len(b.undo)], SubSeq(b.move_stack, 1, Len(b.move_stack) - 1),
          SubSeq(b.undo, 1, Len(b.undo) - 1))

MoveOf(b, uci) == CHOOSE m \in {legal_moves(b)[i] : i \in 1 .. Len(legal_moves(b))} : m.uci = uci

LegalUcis(b) == {legal_moves(b)[i].uci : i \in 1 .. Len(legal_moves(b))}

\* G is a game: sides alternate, a capture removes the captured piece and
\* nothing else changes the pieces, checkmate and stalemate have no legal move,
\* a position in play has one, and two moves of a position differ in name and
\* in the position they lead to
Count(pieces, p) == Cardinality({i \in 1 .. Len(pieces) : pieces[i] = p})

SamePieces(a, b) == \A p \in DOMAIN PIECE_VALUES : Count(a, p) = Count(b, p)

Without(a, b, victim) ==
    \A p \in DOMAIN PIECE_VALUES :
        Count(b, p) = Count(a, p) - (IF p = victim THEN 1 ELSE 0)

Own(f) == IF G[f].turn = White THEN G[f].white ELSE G[f].black

Other(f) == IF G[f].turn = White THEN G[f].black ELSE G[f].white

GraphIsAGame ==
    \A f \in Fens :
        /\ G[f].status \in {"play", "checkmate", "stalemate", "insufficient"}
        /\ G[f].status \in {"checkmate", "stalemate"} => G[f].legal_moves = <<>>
        /\ G[f].status = "play" => G[f].legal_moves # <<>>
        /\ \A i \in 1 .. Len(G[f].legal_moves) :
              LET m == G[f].legal_moves[i]
              IN  /\ m.to \in Fens
                  /\ G[m.to].turn # G[f].turn
                  /\ Count(Own(f), m.attacker) >= 1
                  /\ SamePieces(Own(f), Other(m.to))
                  /\ IF m.capture THEN Without(Other(f), Own(m.to), m.captured)
                                  ELSE SamePieces(Other(f), Own(m.to))
                  /\ \A j \in 1 .. Len(G[f].legal_moves) :
                        \/ j = i
                        \/ /\ G[f].legal_moves[j].uci # m.uci
                           /\ G[f].legal_moves[j].to # m.to

(***************************************************************************)
(* evaluate_position: material and checkmate only, White-positive.         *)
(***************************************************************************)
RECURSIVE SumValues(_)
SumValues(pieces) ==
    IF pieces = <<>> THEN 0
    ELSE PIECE_VALUES[Head(pieces)] + SumValues(Tail(pieces))

evaluate_position(b) ==
    IF is_checkmate(b) THEN (IF turn(b) = White THEN -MATE ELSE MATE)
    ELSE IF is_stalemate(b) THEN 0
    ELSE SumValues(G[b.fen].white) - SumValues(G[b.fen].black)

(***************************************************************************)
(* select_opening_move, as a function of the UCI history and the legal     *)
(* moves of the current position.                                          *)
(***************************************************************************)
Prefix(line, n) == SubSeq(line, 1, n)

LineOffers(line, history, legal) ==
    /\ Len(history) <= Len(line)
    /\ history = Prefix(line, Len(history))
    /\ Len(history) < Len(line)
    /\ line[Len(history) + 1] \in legal

\* mutant of SelectOpeningMove: gives up when the first line that matches the
\* history offers an illegal move
SelectOpeningMoveFirstMatch(history, legal) ==
    IF Len(history) > BOOK_PLY_LIMIT THEN None
    ELSE LET matches == {i \in 1 .. Len(OPENING_LINES) :
                            /\ Len(history) < Len(OPENING_LINES[i])
                            /\ history = Prefix(OPENING_LINES[i], Len(history))}
         IN  IF matches = {} THEN None
             ELSE LET first == CHOOSE i \in matches : \A j \in matches : i <= j
                  IN  IF OPENING_LINES[first][Len(history) + 1] \in legal
                      THEN OPENING_LINES[first][Len(history) + 1] ELSE None

SelectOpeningMove(history, legal) ==
    IF Len(history) > BOOK_PLY_LIMIT THEN None
    ELSE LET hits == {i \in 1 .. Len(OPENING_LINES) : LineOffers(OPENING_LINES[i], history, legal)}
         IN  IF hits = {} THEN None
             ELSE LET first == CHOOSE i \in hits : \A j \in hits : i <= j
                  IN  OPENING_LINES[first][Len(history) + 1]

select_opening_move(b) == SelectOpeningMove(b.move_stack, LegalUcis(b))

(***************************************************************************)
(* order_moves: sorted(moves, key=move_score, reverse=True).  sorted is    *)
(* stable; r gives the value random.randint(0, 5) took for each move.      *)
(***************************************************************************)
move_score(b, tt, move, rnd) ==
    LET key == <<b.fen, 0>>
        hint == IF key \in DOMAIN tt /\ tt[key].move = move.uci THEN 10000 ELSE 0
        mvvlva == IF move.capture /\ move.captured # None
                  THEN 1000 + PIECE_VALUES[move.captured] - PIECE_VALUES[move.attacker]
                  ELSE 0
        center == IF move.to_square \in CENTER_SQUARES THEN 50 ELSE 0
    IN  hint + mvvlva + center + rnd

SortedDescending(moves, key) ==
    LET n == Len(moves)
        Before(i, j) == key[i] > key[j] \/ (key[i] = key[j] /\ i < j)
        rank(i) == 1 + Cardinality({j \in 1 .. n : Before(j, i)})
    IN  [k \in 1 .. n |-> moves[CHOOSE i \in 1 .. n : rank(i) = k]]

order_moves(b, tt, moves) ==
    { SortedDescending(moves, [i \in 1 .. Len(moves) |-> move_score(b, tt, moves[i], r[i])]) :
        r \in [1 .. Len(moves) -> RandVals] }

IsCapture(m) == m.capture

capture_moves(b) == SelectSeq(legal_moves(b), IsCapture)

(***************************************************************************)
(* State of the search: activations of minimax and quiescence.             *)
(***************************************************************************)
NoTable == [k \in {} |-> None]

\* mutant of TTStore: the table keeps only the entry stored last
TTStoreEvict(tt, key, score, move) ==
    [k \in {key} |-> [score |-> score, move |-> move]]

TTStore(tt, key, score, move) ==
    [k \in DOMAIN tt \cup {key} |->
        IF k = key THEN [score |-> score, move |-> move] ELSE tt[k]]

Frame(fn, depth, alpha, beta, is_maximizing, entry) ==
    [fn |-> fn, depth |-> depth, alpha |-> alpha, beta |-> beta,
     is_maximizing |-> is_maximizing, pc |-> "start", moves |-> <<>>,
     value |-> 0, best_move |-> None, entry |-> entry]

Top == frames[Len(frames)]

Callers == SubSeq(frames, 1, Len(frames) - 1)

Running(fn, pc) == frames # <<>> /\ Top.fn = fn /\ Top.pc = pc

SetTop(f) == [frames EXCEPT ![Len(frames)] = f]

Result(score, move) == [score |-> score, move |-> move]

NoResult == Result(0, None)

NoOutcome == [kind |-> "none", move |-> None, score |-> 0, msg |-> ""]

Call(fn, b, use_minimax, depth, alpha, beta, is_maximizing) ==
    [fn |-> fn, board |-> b, use_minimax |-> use_minimax, depth |-> depth,
     alpha |-> alpha, beta |-> beta, is_maximizing |-> is_maximizing,
     table |-> TRANSPOSITION_TABLE]

NoCall == [fn |-> "none", board |-> Board("R", <<>>, <<>>), use_minimax |-> FALSE,
           depth |-> 0, alpha |-> 0, beta |-> 0, is_maximizing |-> FALSE,
           table |-> NoTable]

NO_LEGAL_MOVES == "No legal moves available - game is over"

Start(r) ==
    /\ regime = r
    /\ board = Board("R", <<>>, <<>>)
    /\ TRANSPOSITION_TABLE = NoTable
    /\ frames = <<>>
    /\ ret = NoResult
    /\ ctl = "idle"
    /\ call = NoCall
    /\ outcome = NoOutcome
    /\ calls = 0
    /\ seen = NoTable
    /\ played = <<>>
    /\ bookLegal = {}
    /\ bookMove = None
    /\ diverged = FALSE

(***************************************************************************)
(* minimax(board, depth, alpha, beta, is_maximizing)                       *)
(***************************************************************************)
\* the activation on top returns to its caller
Return(score, move) ==
    /\ frames' = Callers
    /\ ret' = Result(score, move)

tt_key == <<board.fen, Top.depth>>

\* lines 240-242: transposition table hit, returned verbatim
MinimaxHit ==
    /\ Running("minimax", "start")
    /\ tt_key \in DOMAIN TRANSPOSITION_TABLE
    /\ Return(TRANSPOSITION_TABLE[tt_key].score, TRANSPOSITION_TABLE[tt_key].move)
    /\ UNCHANGED <<board, TRANSPOSITION_TABLE, ctl, call, outcome, calls, seen, bookVars>>

\* lines 244-248: game over, evaluate and store
MinimaxGameOver ==
    /\ Running("minimax", "start")
    /\ tt_key \notin DOMAIN TRANSPOSITION_TABLE
    /\ is_game_over(board)
    /\ TRANSPOSITION_TABLE' = TTStore(TRANSPOSITION_TABLE, tt_key, evaluate_position(board), None)
    /\ Return(evaluate_position(board), None)
    /\ UNCHANGED <<board, ctl, call, outcome, calls, seen, bookVars>>

\* line 250: depth 0, call quiescence(board, alpha, beta)
MinimaxLeaf ==
    /\ Running("minimax", "start")
    /\ tt_key \notin DOMAIN TRANSPOSITION_TABLE
    /\ Top.depth = 0
    /\ ~is_game_over(board)
    /\ frames' = Append(SetTop([Top EXCEPT !.pc = "leaf"]),
                        Frame("quiescence", 0, Top.alpha, Top.beta, FALSE, board))
    /\ UNCHANGED <<board, TRANSPOSITION_TABLE, ret, ctl, call, outcome, calls, seen, bookVars>>

\* lines 251-252: store and return the quiescence value
MinimaxLeafDone ==
    /\ Running("minimax", "leaf")
    /\ TRANSPOSITION_TABLE' = TTStore(TRANSPOSITION_TABLE, tt_key, ret.score, None)
    /\ Return(ret.score, None)
    /\ UNCHANGED <<board, ctl, call, outcome, calls, seen, bookVars>>

\* lines 254-258 and 274: order the legal moves, start the loop
MinimaxExpand ==
    /\ Running("minimax", "start")
    /\ tt_key \notin DOMAIN TRANSPOSITION_TABLE
    /\ Top.depth # 0
    /\ ~is_game_over(board)
    /\ \E ordered \in order_moves(board, TRANSPOSITION_TABLE, legal_moves(board)) :
          frames' = SetTop([Top EXCEPT !.pc = "loop", !.moves = ordered,
                                       !.value = IF Top.is_maximizing THEN -Inf ELSE Inf,
                                       !.best_move = None])
    /\ UNCHANGED <<board, TRANSPOSITION_TABLE, ret, ctl, call, outcome, calls, seen, bookVars>>

\* lines 260-261 and 276-277: push the next move and recurse
MinimaxDescend ==
    /\ Running("minimax", "loop")
    /\ Top.moves # <<>>
    /\ board' = push(board, Head(Top.moves))
    /\ frames' = Append(SetTop([Top EXCEPT !.pc = "ret"]),
                        Frame("minimax", Top.depth - 1, -Top.beta, -Top.alpha,
                              ~Top.is_maximizing, push(board, Head(Top.moves))))
    /\ UNCHANGED <<TRANSPOSITION_TABLE, ret, ctl, call, outcome, calls, seen, bookVars>>

\* mutant of MaxUpdate: the comparison of the break is inverted
MaxUpdateInvertedBreak(f, score) ==
    LET better == score > f.value
        alpha == Max(f.alpha, score)
    IN  [f EXCEPT !.pc = "loop",
                  !.value = IF better THEN score ELSE f.value,
                  !.best_move = IF better THEN Head(f.moves).uci ELSE f.best_move,
                  !.alpha = alpha,
                  !.moves = IF alpha <= f.beta THEN <<>> ELSE Tail(f.moves)]

\* what a maximizing activation does with the child's score (lines 262-270)
MaxUpdate(f, score) ==
    LET better == score > f.value
        alpha == Max(f.alpha, score)
    IN  [f EXCEPT !.pc = "loop",
                  !.value = IF better THEN score ELSE f.value,
                  !.best_move = IF better THEN Head(f.moves).uci ELSE f.best_move,
                  !.alpha = alpha,
                  !.moves = IF alpha >= f.beta THEN <<>> ELSE Tail(f.moves)]

\* what a minimizing activation does with the child's score (lines 278-286)
MinUpdate(f, score) ==
    LET better == score < f.value
        beta == Min(f.beta, score)
    IN  [f EXCEPT !.pc = "loop",
                  !.value = IF better THEN score ELSE f.value,
                  !.best_move = IF better THEN Head(f.moves).uci ELSE f.best_move,
                  !.beta = beta,
                  !.moves = IF f.alpha >= beta THEN <<>> ELSE Tail(f.moves)]

\* lines 262-270: negate the child's score, pop, update value and alpha, maybe break
MinimaxResumeMax ==
    /\ Running("minimax", "ret")
    /\ Top.is_maximizing
    /\ board' = pop(board)
    /\ frames' = SetTop(MaxUpdate(Top, -ret.score))
    /\ UNCHANGED <<TRANSPOSITION_TABLE, ret, ctl, call, outcome, calls, seen, bookVars>>

\* lines 278-286: negate the child's score, pop, update value and beta, maybe break
MinimaxResumeMin ==
    /\ Running("minimax", "ret")
    /\ ~Top.is_maximizing
    /\ board' = pop(board)
    /\ frames' = SetTop(MinUpdate(Top, -ret.score))
    /\ UNCHANGED <<TRANSPOSITION_TABLE, ret, ctl, call, outcome, calls, seen, bookVars>>

\* lines 271-272 and 287-288: the loop is over, store and return
MinimaxFinish ==
    /\ Running("minimax", "loop")
    /\ Top.moves = <<>>
    /\ TRANSPOSITION_TABLE' = TTStore(TRANSPOSITION_TABLE, tt_key, Top.value, Top.best_move)
    /\ Return(Top.value, Top.best_move)
    /\ UNCHANGED <<board, ctl, call, outcome, calls, seen, bookVars>>

(***************************************************************************)
(* quiescence(board, alpha, beta)                                          *)
(***************************************************************************)
\* lines 215-217: stand pat meets beta
QuiescenceStandPat ==
    /\ Running("quiescence", "start")
    /\ evaluate_position(board) >= Top.beta
    /\ Return(Top.beta, None)
    /\ UNCHANGED <<board, TRANSPOSITION_TABLE, ctl, call, outcome, calls, seen, bookVars>>

\* lines 218-222: raise alpha to stand pat, order the captures
QuiescenceExpand ==
    /\ Running("quiescence", "start")
    /\ evaluate_position(board) < Top.beta
    /\ \E ordered \in order_moves(board, TRANSPOSITION_TABLE, capture_moves(board)) :
          frames' = SetTop([Top EXCEPT !.pc = "loop", !.moves = ordered,
                                       !.value = evaluate_position(board),
                                       !.alpha = Max(Top.alpha, evaluate_position(board))])
    /\ UNCHANGED <<board, TRANSPOSITION_TABLE, ret, ctl, call, outcome, calls, seen, bookVars>>

\* lines 223-224: push the capture and recurse with the negated window
QuiescenceDescend ==
    /\ Running("quiescence", "loop")
    /\ Top.moves # <<>>
    /\ board' = push(board, Head(Top.moves))
    /\ frames' = Append(SetTop([Top EXCEPT !.pc = "ret"]),
                        Frame("quiescence", 0, -Top.beta, -Top.alpha, FALSE,
                              push(board, Head(Top.moves))))
    /\ UNCHANGED <<TRANSPOSITION_TABLE, ret, ctl, call, outcome, calls, seen, bookVars>>

\* mutant of QuiescenceCutoff: returns beta before board.pop()
QuiescenceCutoffNoPop ==
    /\ Running("quiescence", "ret")
    /\ -ret.score >= Top.beta
    /\ Return(Top.beta, None)
    /\ UNCHANGED <<board, TRANSPOSITION_TABLE, ctl, call, outcome, calls, seen, bookVars>>

\* lines 225-228: pop; the score meets beta
QuiescenceCutoff ==
    /\ Running("quiescence", "ret")
    /\ -ret.score >= Top.beta
    /\ board' = pop(board)
    /\ Return(Top.beta, None)
    /\ UNCHANGED <<TRANSPOSITION_TABLE, ctl, call, outcome, calls, seen, bookVars>>

\* lines 225-230: pop; raise alpha, next capture
QuiescenceResume ==
    /\ Running("quiescence", "ret")
    /\ -ret.score < Top.beta
    /\ board' = pop(board)
    /\ frames' = SetTop([Top EXCEPT !.pc = "loop", !.moves = Tail(Top.moves),
                                    !.alpha = Max(Top.alpha, -ret.score)])
    /\ UNCHANGED <<TRANSPOSITION_TABLE, ret, ctl, call, outcome, calls, seen, bookVars>>

\* mutant of QuiescenceFinish: returns stand_pat instead of alpha
QuiescenceFinishStandPat ==
    /\ Running("quiescence", "loop")
    /\ Top.moves = <<>>
    /\ Return(Top.value, None)
    /\ UNCHANGED <<board, TRANSPOSITION_TABLE, ctl, call, outcome, calls, seen, bookVars>>

\* line 232: no capture left
QuiescenceFinish ==
    /\ Running("quiescence", "loop")
    /\ Top.moves = <<>>
    /\ Return(Top.alpha, None)
    /\ UNCHANGED <<board, TRANSPOSITION_TABLE, ctl, call, outcome, calls, seen, bookVars>>

(***************************************************************************)
(* Top-level calls.  The caller hands over any board of RootBoards.        *)
(***************************************************************************)
Depths == 0 .. MaxDepth

WindowBounds == {-Inf, 200, Inf}

Windows == {w \in WindowBounds \X WindowBounds : w[1] < w[2]}

DirectBoards == {b \in RootBoards : b.fen \in {"B2", "T", "K0"}}

Cold(c) == c.table = NoTable /\ c.alpha = -Inf /\ c.beta = Inf /\ c.is_maximizing

\* "warm": calls follow each other in one process, the table is never cleared;
\* "cold": every call finds the table empty;
\* "runs": cold full-window searches in successive processes, a later process
\*         repeating a (fen, depth) an earlier one searched
MayCall(c) ==
    /\ ctl = "idle"
    /\ calls < MaxCalls
    /\ regime = "cold" => TRANSPOSITION_TABLE = NoTable
    /\ regime = "runs" =>
          /\ Cold(c)
          /\ seen # NoTable => <<c.board.fen, c.depth>> \in DOMAIN seen

Begin(c) ==
    /\ MayCall(c)
    /\ board' = c.board
    /\ call' = c
    /\ calls' = calls + 1
    /\ ret' = NoResult

MoveOutcome(move) == [kind |-> "move", move |-> move, score |-> 0, msg |-> ""]

ErrorOutcome(msg) == [kind |-> "error", move |-> None, score |-> 0, msg |-> msg]

ResultOutcome(r) == [kind |-> "result", move |-> r.move, score |-> r.score, msg |-> ""]

Ucis(moves) == {moves[i].uci : i \in 1 .. Len(moves)}

\* mutant of GetBotMoveNoLegalMoves: the check is missing, random.choice fails
\* on the empty list and the IndexError handler reports it
GetBotMoveNoCheck(b, use_minimax, depth) ==
    /\ ctl = "idle"
    /\ legal_moves(b) = <<>>
    /\ Begin(Call("get_bot_move", b, use_minimax, depth, -Inf, Inf, TRUE))
    /\ outcome' = ErrorOutcome("Failed to select a valid move")
    /\ UNCHANGED <<TRANSPOSITION_TABLE, frames, ctl, seen, bookVars>>

\* minimax_main.py lines 300-302: no legal move, ChessGameError
GetBotMoveNoLegalMoves(b, use_minimax, depth) ==
    /\ ctl = "idle"
    /\ legal_moves(b) = <<>>
    /\ Begin(Call("get_bot_move", b, use_minimax, depth, -Inf, Inf, TRUE))
    /\ outcome' = ErrorOutcome(NO_LEGAL_MOVES)
    /\ UNCHANGED <<TRANSPOSITION_TABLE, frames, ctl, seen, bookVars>>

\* lines 304-307: the opening book offers a move
GetBotMoveBook(b, use_minimax, depth) ==
    /\ ctl = "idle"
    /\ legal_moves(b) # <<>>
    /\ select_opening_move(b) # None
    /\ Begin(Call("get_bot_move", b, use_minimax, depth, -Inf, Inf, TRUE))
    /\ outcome' = MoveOutcome(select_opening_move(b))
    /\ UNCHANGED <<TRANSPOSITION_TABLE, frames, ctl, seen, bookVars>>

\* lines 309-312: book miss, call minimax(board, depth, -inf, inf, True)
GetBotMoveSearch(b, depth) ==
    /\ ctl = "idle"
    /\ legal_moves(b) # <<>>
    /\ select_opening_move(b) = None
    /\ Begin(Call("get_bot_move", b, TRUE, depth, -Inf, Inf, TRUE))
    /\ frames' = <<Frame("minimax", depth, -Inf, Inf, TRUE, b)>>
    /\ ctl' = "get_bot_move"
    /\ outcome' = NoOutcome
    /\ UNCHANGED <<TRANSPOSITION_TABLE, seen, bookVars>>

\* mutant of SearchedMoves: no fallback when minimax gives no move
SearchedMovesNoFallback(b, r) == {r.move}

\* the move get_bot_move hands back after the search (lines 314-321)
SearchedMoves(b, r) == IF r.move = None THEN LegalUcis(b) ELSE {r.move}

\* lines 314-321: minimax returned; random.choice(legal_moves) when it gave no move
GetBotMoveReturn ==
    /\ ctl = "get_bot_move"
    /\ frames = <<>>
    /\ \E move \in SearchedMoves(call.board, ret) : outcome' = MoveOutcome(move)
    /\ ctl' = "idle"
    /\ UNCHANGED <<board, TRANSPOSITION_TABLE, frames, ret, call, calls, seen, bookVars>>

\* mutant of PreferCaptures: the capture list is ignored
PreferCapturesAnyLegal(b) == LegalUcis(b)

\* the moves the capture-or-random bot chooses among
PreferCaptures(b) ==
    IF capture_moves(b) # <<>> THEN Ucis(capture_moves(b)) ELSE LegalUcis(b)

\* lines 322-331: use_minimax is off, prefer captures, otherwise random
GetBotMoveFallback(b, depth) ==
    /\ ctl = "idle"
    /\ legal_moves(b) # <<>>
    /\ select_opening_move(b) = None
    /\ Begin(Call("get_bot_move", b, FALSE, depth, -Inf, Inf, TRUE))
    /\ \E move \in PreferCaptures(b) : outcome' = MoveOutcome(move)
    /\ UNCHANGED <<TRANSPOSITION_TABLE, frames, ctl, seen, bookVars>>

\* main.py lines 132-135: no legal move, ChessGameError
MainGetBotMoveNoLegalMoves(b) ==
    /\ ctl = "idle"
    /\ legal_moves(b) = <<>>
    /\ Begin(Call("main.get_bot_move", b, FALSE, 0, -Inf, Inf, TRUE))
    /\ outcome' = ErrorOutcome(NO_LEGAL_MOVES)
    /\ UNCHANGED <<TRANSPOSITION_TABLE, frames, ctl, seen, bookVars>>

\* main.py lines 137-145: prefer captures, otherwise random
MainGetBotMove(b) ==
    /\ ctl = "idle"
    /\ legal_moves(b) # <<>>
    /\ Begin(Call("main.get_bot_move", b, FALSE, 0, -Inf, Inf, TRUE))
    /\ \E move \in PreferCaptures(b) : outcome' = MoveOutcome(move)
    /\ UNCHANGED <<TRANSPOSITION_TABLE, frames, ctl, seen, bookVars>>

\* minimax called directly with any window and either role
CallMinimax(b, depth, w, is_maximizing) ==
    /\ ctl = "idle"
    /\ Begin(Call("minimax", b, TRUE, depth, w[1], w[2], is_maximizing))
    /\ frames' = <<Frame("minimax", depth, w[1], w[2], is_maximizing, b)>>
    /\ ctl' = "minimax"
    /\ outcome' = NoOutcome
    /\ UNCHANGED <<TRANSPOSITION_TABLE, seen, bookVars>>

MinimaxReturn ==
    /\ ctl = "minimax"
    /\ frames = <<>>
    /\ outcome' = ResultOutcome(ret)
    /\ ctl' = "idle"
    /\ UNCHANGED <<board, TRANSPOSITION_TABLE, frames, ret, call, calls, seen, bookVars>>

\* quiescence called directly with any window
CallQuiescence(b, w) ==
    /\ ctl = "idle"
    /\ Begin(Call("quiescence", b, TRUE, 0, w[1], w[2], FALSE))
    /\ frames' = <<Frame("quiescence", 0, w[1], w[2], FALSE, b)>>
    /\ ctl' = "quiescence"
    /\ outcome' = NoOutcome
    /\ UNCHANGED <<TRANSPOSITION_TABLE, seen, bookVars>>

QuiescenceReturn ==
    /\ ctl = "quiescence"
    /\ frames = <<>>
    /\ outcome' = ResultOutcome(ret)
    /\ ctl' = "idle"
    /\ UNCHANGED <<board, TRANSPOSITION_TABLE, frames, ret, call, calls, seen, bookVars>>

\* a new process: the module is loaded again, TRANSPOSITION_TABLE = {} (line 24);
\* what the search of the process that ended returned is kept for comparison
Restart ==
    /\ regime = "runs"
    /\ ctl = "idle"
    /\ calls < MaxCalls
    /\ TRANSPOSITION_TABLE # NoTable
    /\ TRANSPOSITION_TABLE' = NoTable
    /\ seen' = IF <<call.board.fen, call.depth>> \in DOMAIN seen THEN seen
               ELSE TTStore(seen, <<call.board.fen, call.depth>>, ret.score, ret.move)
    /\ UNCHANGED <<board, frames, ret, ctl, call, outcome, calls, bookVars>>

SELECTION_ERROR == "Error selecting bot move"

ENGINE_ERROR == "rules engine error"

\* a python-chess call of the activation on top raises.  Neither minimax nor
\* quiescence has a try/finally around push ... pop (lines 223-225, 260-263,
\* 276-279), so every activation is abandoned with its pushed move still on the
\* board; get_bot_move wraps the exception (lines 337-338), a direct caller of
\* minimax or quiescence receives it as raised.
RulesEngineError ==
    /\ ctl \in {"get_bot_move", "minimax", "quiescence"}
    /\ frames # <<>>
    /\ frames' = <<>>
    /\ ctl' = "idle"
    /\ outcome' = ErrorOutcome(IF ctl = "get_bot_move" THEN SELECTION_ERROR ELSE ENGINE_ERROR)
    /\ UNCHANGED <<board, TRANSPOSITION_TABLE, ret, call, calls, seen, bookVars>>

Search ==
    \/ MinimaxHit \/ MinimaxGameOver \/ MinimaxLeaf \/ MinimaxLeafDone
    \/ MinimaxExpand \/ MinimaxDescend \/ MinimaxResumeMax \/ MinimaxResumeMin
    \/ MinimaxFinish
    \/ QuiescenceStandPat \/ QuiescenceExpand \/ QuiescenceDescend
    \/ QuiescenceCutoff \/ QuiescenceResume \/ QuiescenceFinish

Next ==
    \/ Search
    \/ \E b \in RootBoards, use_minimax \in BOOLEAN, depth \in Depths :
          \/ GetBotMoveNoLegalMoves(b, use_minimax, depth)
          \/ GetBotMoveBook(b, use_minimax, depth)
    \/ \E b \in RootBoards, depth \in Depths :
          \/ GetBotMoveSearch(b, depth)
          \/ GetBotMoveFallback(b, depth)
    \/ GetBotMoveReturn
    \/ \E b \in RootBoards : MainGetBotMoveNoLegalMoves(b) \/ MainGetBotMove(b)
    \/ \E b \in DirectBoards, depth \in Depths, w \in Windows, m \in BOOLEAN :
          CallMinimax(b, depth, w, m)
    \/ MinimaxReturn
    \/ \E b \in DirectBoards, w \in Windows : CallQuiescence(b, w)
    \/ QuiescenceReturn

RunsNext ==
    \/ Search
    \/ \E b \in RootBoards, depth \in Depths : GetBotMoveSearch(b, depth)
    \/ GetBotMoveReturn
    \/ \E b \in DirectBoards, depth \in Depths, w \in Windows, m \in BOOLEAN :
          CallMinimax(b, depth, w, m)
    \/ MinimaxReturn
    \/ Restart

\* the calls of Next, with the rules engine free to raise during a search
FaultNext == Next \/ RulesEngineError

(***************************************************************************)
(* The opening book on its own: a game is played move by move and          *)
(* select_opening_move is asked at every ply, with any set of legal moves. *)
(***************************************************************************)
OffBook == "a2a3"

\* the moves some line has at ply n (counted from 1), and one move no line has
PlyMoves(n) ==
    {OPENING_LINES[i][n] : i \in {j \in 1 .. Len(OPENING_LINES) : Len(OPENING_LINES[j]) >= n}}
    \cup {OffBook}

OnSomeLine(history) ==
    \E i \in 1 .. Len(OPENING_LINES) :
        /\ Len(history) <= Len(OPENING_LINES[i])
        /\ \A k \in 1 .. Len(history) : history[k] = OPENING_LINES[i][k]

\* board.push(m) by the game loop, then select_opening_move(board)
BookPlay(m, legal) ==
    /\ regime = "book"
    /\ Len(played) < MaxBookPly
    /\ played' = Append(played, m)
    /\ bookLegal' = legal
    /\ bookMove' = SelectOpeningMove(Append(played, m), legal)
    /\ diverged' = (diverged \/ ~OnSomeLine(Append(played, m)))
    /\ UNCHANGED <<board, TRANSPOSITION_TABLE, frames, ret, ctl, call, outcome, calls, seen, regime>>

\* select_opening_move(board) on the same history, other legal moves
BookLookup(legal) ==
    /\ regime = "book"
    /\ bookLegal' = legal
    /\ bookMove' = SelectOpeningMove(played, legal)
    /\ UNCHANGED <<board, TRANSPOSITION_TABLE, frames, ret, ctl, call, outcome, calls, seen,
                   regime, played, diverged>>

BookNext ==
    \/ \E m \in PlyMoves(Len(played) + 1), legal \in SUBSET PlyMoves(Len(played) + 2) :
          BookPlay(m, legal)
    \/ \E legal \in SUBSET PlyMoves(Len(played) + 1) : BookLookup(legal)

\* one process, calls one after the other on a table that is never cleared
Init == Start("warm")

Spec == Init /\ [][Next]_vars

\* every call finds the table as the module load left it
ColdInit == Start("cold")

SpecCold == ColdInit /\ [][Next]_vars

\* the same search in successive processes
RunsInit == Start("runs")

SpecRuns == RunsInit /\ [][RunsNext]_vars

\* the opening book alone
BookInit == Start("book")

SpecBook == BookInit /\ [][BookNext]_vars

\* cold calls during which the rules engine may raise
FaultInit == Start("cold")

SpecFault == FaultInit /\ [][FaultNext]_vars

(***************************************************************************)
(* The search without alpha-beta and without the table: the same           *)
(* recursion, leaf evaluation and negations as minimax and quiescence,     *)
(* every move of every node examined.                                      *)
(***************************************************************************)
RECURSIVE MaxOver(_, _, _), MinOver(_, _, _)
\* the largest (smallest) of F[1] .. F[n] and the starting value
MaxOver(F, n, bottom) ==
    IF n = 0 THEN bottom ELSE Max(F[n], MaxOver(F, n - 1, bottom))

MinOver(F, n, top) ==
    IF n = 0 THEN top ELSE Min(F[n], MinOver(F, n - 1, top))

RECURSIVE FullQuiescence(_)
FullQuiescence(fen) ==
    LET b == Board(fen, <<>>, <<>>)
        caps == capture_moves(b)
        child == [i \in 1 .. Len(caps) |-> -FullQuiescence(caps[i].to)]
    IN  MaxOver(child, Len(caps), evaluate_position(b))

RECURSIVE FullMinimax(_, _, _)
FullMinimax(fen, depth, is_maximizing) ==
    LET b == Board(fen, <<>>, <<>>)
        moves == legal_moves(b)
        child == [i \in 1 .. Len(moves) |-> -FullMinimax(moves[i].to, depth - 1, ~is_maximizing)]
    IN  IF is_game_over(b) THEN evaluate_position(b)
        ELSE IF depth = 0 THEN FullQuiescence(fen)
        ELSE IF is_maximizing THEN MaxOver(child, Len(moves), -Inf)
        ELSE MinOver(child, Len(moves), Inf)

\* the score the full search gives a move of the root
FullMoveScore(fen, depth, uci) ==
    -FullMinimax(MoveOf(Board(fen, <<>>, <<>>), uci).to, depth - 1, FALSE)

(***************************************************************************)
(* Claims.                                                                 *)
(***************************************************************************)
\* a top-level minimax activation has just returned to get_bot_move or to the caller
SearchReturned == ctl \in {"get_bot_move", "minimax"} /\ frames = <<>>

\* a leaf whose stored score is not its full quiescence value
BoundStored ==
    \E k \in DOMAIN TRANSPOSITION_TABLE :
        /\ k[2] = 0
        /\ ~is_game_over(Board(k[1], <<>>, <<>>))
        /\ TRANSPOSITION_TABLE[k].score # FullQuiescence(k[1])

\* C1: started with an empty table and the full window, minimax(board, depth,
\* -inf, +inf, True) returns the score of the full search of the same
\* position at the same depth.
C1_PruningPreservesScore ==
    (SearchReturned /\ Cold(call)) =>
        ret.score = FullMinimax(call.board.fen, call.depth, TRUE)

\* C1 witness: a cold depth-3 search of R has returned, and windows narrowed
\* on the way (a leaf holds a bound instead of its value).
C1_Witness ==
    /\ SearchReturned /\ Cold(call)
    /\ call.board.fen = "R" /\ call.depth = 3
    /\ BoundStored
    /\ ret.score = FullMinimax("R", 3, TRUE)

\* a finished call of minimax_main.get_bot_move
BotMoveDone == ctl = "idle" /\ call.fn = "get_bot_move"

Mates(b, uci) == uci \in LegalUcis(b) /\ is_checkmate(push(b, MoveOf(b, uci)))

HasMate(b) == \E uci \in LegalUcis(b) : Mates(b, uci)

\* the mate sentinel against the side to move of a checkmated position
MatedScore(b) == IF turn(b) = White THEN -MATE ELSE MATE

\* C2: when the side to move can mate in one, get_bot_move(board, True, depth)
\* with depth >= 1, a book miss and an empty table returns a mating move, and
\* evaluate_position after the move gives the mate sentinel against the mated side.
C2_MateInOne ==
    ( /\ BotMoveDone /\ call.use_minimax /\ call.depth >= 1
      /\ call.table = NoTable
      /\ select_opening_move(call.board) = None
      /\ HasMate(call.board) ) =>
        /\ outcome.kind = "move"
        /\ Mates(call.board, outcome.move)
        /\ evaluate_position(push(call.board, MoveOf(call.board, outcome.move)))
              = MatedScore(push(call.board, MoveOf(call.board, outcome.move)))

\* C3: when minimax or quiescence returns, the board is the board of its call:
\* while an activation runs its own code the board is its entry board, between
\* push and pop it is the entry board with the move pushed, and after the
\* top-level activation returned it is the caller's board.
C3_BoardRestored ==
    /\ frames # <<>> =>
          board = IF Top.pc = "ret" THEN push(Top.entry, Head(Top.moves)) ELSE Top.entry
    /\ frames = <<>> => board = call.board

\* C3 witness: a nested minimax activation of a position with several moves
\* left its loop with alpha >= beta, and the board is its entry board.
C3_Witness ==
    /\ Len(frames) >= 2
    /\ Top.fn = "minimax" /\ Top.pc = "loop" /\ Top.moves = <<>>
    /\ Top.alpha >= Top.beta
    /\ Top.best_move # None
    /\ Len(legal_moves(Top.entry)) >= 2
    /\ board = Top.entry

\* C4: with no legal move both get_bot_move functions raise ChessGameError
\* "No legal moves available - game is over"; no search is started, and board
\* and table are as before the call.
C4_NoLegalMoves ==
    (call.fn \in {"get_bot_move", "main.get_bot_move"} /\ legal_moves(call.board) = <<>>) =>
        /\ ctl = "idle"
        /\ frames = <<>>
        /\ outcome = ErrorOutcome(NO_LEGAL_MOVES)
        /\ board = call.board
        /\ TRANSPOSITION_TABLE = call.table

\* C4 witness: minimax_main.get_bot_move failed on a checkmated board while
\* the table held entries of an earlier search.
C4_Witness ==
    /\ BotMoveDone
    /\ is_checkmate(call.board)
    /\ call.table # NoTable
    /\ outcome.kind = "error"
    /\ TRANSPOSITION_TABLE = call.table

\* C5: with a legal move available get_bot_move returns a legal move, never
\* an absent one: the book move, the search's move, or a legal move chosen at
\* random when the search gave none, whatever the table held.
C5_ReturnsLegalMove ==
    (BotMoveDone /\ legal_moves(call.board) # <<>>) =>
        /\ outcome.kind = "move"
        /\ outcome.move # None
        /\ outcome.move \in LegalUcis(call.board)
        /\ select_opening_move(call.board) # None =>
              outcome.move = select_opening_move(call.board)
        /\ (select_opening_move(call.board) = None /\ call.use_minimax /\ ret.move # None) =>
              outcome.move = ret.move

\* C5 witness: the root was found in the table of an earlier search with no
\* move stored, and get_bot_move still returned a legal move.
C5_Witness ==
    /\ BotMoveDone /\ call.use_minimax
    /\ <<call.board.fen, call.depth>> \in DOMAIN call.table
    /\ ~is_game_over(call.board)
    /\ ret.move = None
    /\ outcome.kind = "move"
    /\ outcome.move \in LegalUcis(call.board)

SearchKey == <<call.board.fen, call.depth>>

\* C6: a cold full-window search returns the score that the search of the
\* same (position, depth) returned in an earlier process, whatever the random
\* tie-breaks were; its move has that score in the full search.
C6_SameScoreAcrossRuns ==
    (SearchReturned /\ SearchKey \in DOMAIN seen) =>
        /\ ret.score = seen[SearchKey].score
        /\ ret.move # None =>
              FullMoveScore(call.board.fen, call.depth, ret.move) = ret.score

\* C6 witness: the second search returned another move than the first, with
\* the same score.
C6_Witness ==
    /\ SearchReturned /\ SearchKey \in DOMAIN seen
    /\ ret.move # None
    /\ ret.move # seen[SearchKey].move
    /\ ret.score = seen[SearchKey].score

\* C7: every table entry under (position, depth) holds the score that a cold
\* full-window search of that position at that depth returns.
C7_CacheIsMemo ==
    \A k \in DOMAIN TRANSPOSITION_TABLE :
        TRANSPOSITION_TABLE[k].score = FullMinimax(k[1], k[2], TRUE)

\* a quiescence activation has just returned; the board is its position
QuiescenceReturned ==
    \/ frames = <<>> /\ ctl = "quiescence"
    \/ frames # <<>> /\ Top.fn = "quiescence" /\ Top.pc = "ret"
    \/ frames # <<>> /\ Top.fn = "minimax" /\ Top.pc = "leaf"

\* the window it was called with
QAlpha == IF frames = <<>> THEN call.alpha ELSE IF Top.pc = "leaf" THEN Top.alpha ELSE -Top.beta

QBeta == IF frames = <<>> THEN call.beta ELSE IF Top.pc = "leaf" THEN Top.beta ELSE -Top.alpha

\* C8 as stated: without a capturing move quiescence never returns less than
\* evaluate_position(board), whatever the window.
C8_NeverBelowStandPat ==
    (QuiescenceReturned /\ capture_moves(board) = <<>>) =>
        ret.score >= evaluate_position(board)

\* C8 amended: without a capturing move quiescence returns beta when
\* evaluate_position(board) >= beta and max(alpha, evaluate_position(board))
\* otherwise; it is below the static evaluation only when beta is.
C8_StandPatWithinWindow ==
    (QuiescenceReturned /\ capture_moves(board) = <<>>) =>
        /\ ret.score = IF evaluate_position(board) >= QBeta THEN QBeta
                       ELSE Max(QAlpha, evaluate_position(board))
        /\ evaluate_position(board) <= QBeta => ret.score >= evaluate_position(board)

\* C8 witness: quiescence, called inside a search with a window bounded
\* above, returned the static evaluation of a position without captures.
C8_Witness ==
    /\ QuiescenceReturned /\ capture_moves(board) = <<>>
    /\ Len(frames) >= 2
    /\ QBeta < Inf
    /\ evaluate_position(board) < QBeta
    /\ ret.score = evaluate_position(board)

\* C10: every game-over position that is not checkmate is evaluated 0, so a
\* game-over node stored by minimax scores 0 or the mate sentinel.
C10_DrawnTerminalScoresZero ==
    \A k \in DOMAIN TRANSPOSITION_TABLE :
        is_game_over(Board(k[1], <<>>, <<>>)) =>
            TRANSPOSITION_TABLE[k].score =
                IF is_checkmate(Board(k[1], <<>>, <<>>))
                THEN MatedScore(Board(k[1], <<>>, <<>>)) ELSE 0

\* the lines of which the history is a strict prefix and whose next move is legal
Offering(history, legal) ==
    {i \in 1 .. Len(OPENING_LINES) :
        /\ Len(history) < Len(OPENING_LINES[i])
        /\ \A k \in 1 .. Len(history) : history[k] = OPENING_LINES[i][k]
        /\ OPENING_LINES[i][Len(history) + 1] \in legal}

\* C9: select_opening_move returns the next move of the first line, in book
\* order, of which the history is a strict prefix and whose next move is
\* legal, and absent otherwise: always after more than 8 plies, and at every
\* lookup once the history has left every line.
C9_OpeningBook ==
    /\ bookMove =
          IF Offering(played, bookLegal) = {} THEN None
          ELSE OPENING_LINES[CHOOSE i \in Offering(played, bookLegal) :
                                \A j \in Offering(played, bookLegal) : i <= j][Len(played) + 1]
    /\ Len(played) > 8 => bookMove = None
    /\ diverged => bookMove = None

\* C9 witness: after e2e4 e7e5 the King's Gambit move is not legal and the
\* Evans Gambit line, later in the book, gives g1f3.
C9_Witness ==
    /\ played = <<"e2e4", "e7e5">>
    /\ "f2f4" \notin bookLegal
    /\ "g1f3" \in bookLegal
    /\ bookMove = "g1f3"

\* the non-search mode has returned a move: main.py's get_bot_move, or
\* minimax_main.py's with use_minimax off
FallbackReturned ==
    /\ ctl = "idle"
    /\ outcome.kind = "move"
    /\ \/ call.fn = "main.get_bot_move"
       \/ call.fn = "get_bot_move" /\ ~call.use_minimax

\* a capture when the board has one, a legal move otherwise
CaptureElseLegal ==
    /\ outcome.move \in LegalUcis(call.board)
    /\ capture_moves(call.board) # <<>> => MoveOf(call.board, outcome.move).capture

BookOffers == call.fn = "get_bot_move" /\ select_opening_move(call.board) # None

SearchErrorReported ==
    /\ ctl = "idle"
    /\ call.fn = "get_bot_move"
    /\ outcome.kind = "error"
    /\ outcome.msg = SELECTION_ERROR

\* C12: when get_bot_move reports an error the rules engine raised inside a
\* recursive call of minimax or quiescence, the board is the board it was given.
C12_ErrorRestoresBoard == SearchErrorReported => board = call.board

\* C13: in one process every key of the transposition table stays in it and
\* keeps its (score, move) entry, whatever step the program takes.
C13_CacheWriteOnce ==
    [][\A k \in DOMAIN TRANSPOSITION_TABLE :
          /\ k \in DOMAIN TRANSPOSITION_TABLE'
          /\ TRANSPOSITION_TABLE'[k] = TRANSPOSITION_TABLE[k]]_vars

\* a later search of the process found entries, kept them all, and stored a
\* position it had an entry for under another depth
C13_Witness ==
    /\ calls = MaxCalls
    /\ call.table # NoTable
    /\ \A k \in DOMAIN call.table :
          k \in DOMAIN TRANSPOSITION_TABLE /\ TRANSPOSITION_TABLE[k] = call.table[k]
    /\ \E k \in DOMAIN call.table, n \in DOMAIN TRANSPOSITION_TABLE \ DOMAIN call.table :
          k[1] = n[1] /\ k[2] # n[2]

====
